---- MODULE Spec2Model ----
(***************************************************************************)
(* A model of mrbavii_xml2html.py: the metadata index (State, Scan.run),   *)
(* the output stage (Xml2HtmlApp.build_from_data, checktimes), the node    *)
(* wrapper (XmlWrapper.__init__) and the parameter context                 *)
(* (Xml2HtmlApp.init); and of the Token Resolver and the Transducer of     *)
(* the package mrbavii_xml2html that setup.py installs, as spec.md         *)
(* sections 4.1 and 4.3 describe them.                                     *)
(*                                                                         *)
(* Python strings are sequences of one-character strings, so that          *)
(* slicing, splitting, stripping and comparison are computed, not assumed. *)
(* Python's None is a record with a presence flag.                         *)
(***************************************************************************)
EXTENDS Integers, Sequences, FiniteSets, TLC

VARIABLES
    \* ---- State / Scan.run
    xp,                 \* State._xpyear .. _xpsummary: which queries are configured
    scanned,            \* the inputs Scan.run has passed to State.decode so far
    self_states,        \* State._states
    self_tags,          \* State._tags
    sorted_states,      \* Scan.run local
    sorted_tags,        \* Scan.run local
    sorted_state_tags,  \* Scan.run local, as a template reads it when it renders
    scan_pc,            \* "scan" | "views" | "error"
    scan_raised,        \* the exception that ended Scan.run, or "none"
    \* ---- the file system and Xml2HtmlApp.build_from_data
    fs_files,           \* the regular files: resolved path -> [mtime, content]
    fs_dirs,            \* the directories below the working directory
    input_mtime,        \* os.path.getmtime(input)
    clock,              \* the time a write stamps on a file
    build_output,       \* the output argument of the last build_from_data call
    build_sections,     \* renderer.get_sections() of that call, in its order
    build_log,          \* what that call printed through log()
    build_written,      \* the files that call opened for writing
    build_raised,       \* the exception that ended that call, or "none"
    \* ---- XmlWrapper
    node_tag,           \* node.tag of the node wrapped last
    wrapper_ns,         \* XmlWrapper._ns
    wrapper_tagname,    \* XmlWrapper._tagname
    wrapped,            \* a wrapper has been constructed
    \* ---- Xml2HtmlApp.init
    params,             \* args.params, the -D options
    param_i,            \* the parameters the loop has handled
    context,            \* the context under construction, then self.context
    init_pc,            \* "params" | "ready"
    \* ---- Token Resolver and Transducer (one transduction run)
    tx_pc,              \* "idle" | "resolved" | "done"
    tx_input,           \* the arguments of the call made
    tx_token,           \* what resolve returned
    tx_stack,           \* the text-emission stack, top last
    tx_out,             \* the Output Accumulator: the fragments in append order
    tx_calls,           \* the processNode calls that ended, in the order they ended
    tx_events,          \* the pushes and pops on the stack, in order
    tx_raised           \* the error that ended the run, or "none"

scanVars == <<xp, scanned, self_states, self_tags, sorted_states, sorted_tags,
              sorted_state_tags, scan_pc, scan_raised>>

buildVars == <<fs_files, fs_dirs, input_mtime, clock, build_output, build_sections,
               build_log, build_written, build_raised>>

wrapVars == <<node_tag, wrapper_ns, wrapper_tagname, wrapped>>

paramVars == <<params, param_i, context, init_pc>>

txVars == <<tx_pc, tx_input, tx_token, tx_stack, tx_out, tx_calls, tx_events,
            tx_raised>>

vars == <<scanVars, buildVars, wrapVars, paramVars, txVars>>

(***************************************************************************)
(* Bounds                                                                  *)
(***************************************************************************)
MaxDocs == 3

MaxSections == 2

MaxTagLen == 4

MaxParams == 2

(***************************************************************************)
(* Python string helpers                                                   *)
(***************************************************************************)
Whitespace == {" ", "\n", "\t"}

Digits == {"0", "1", "2", "3", "4", "5", "6", "7", "8", "9"}

DigitVal(c) ==
    CASE c = "0" -> 0 [] c = "1" -> 1 [] c = "2" -> 2 [] c = "3" -> 3
      [] c = "4" -> 4 [] c = "5" -> 5 [] c = "6" -> 6 [] c = "7" -> 7
      [] c = "8" -> 8 [] c = "9" -> 9

\* Code points of the characters the inputs use (string comparison order).
Ord(c) ==
    CASE c = "\t" -> 9 [] c = "\n" -> 10 [] c = " " -> 32
      [] c \in Digits -> 48 + DigitVal(c)
      [] c = "B" -> 66 [] c = "a" -> 97 [] c = "b" -> 98 [] c = "c" -> 99
      [] OTHER -> 120

\* str < str: lexicographic by code point, a proper prefix is smaller.
RECURSIVE StrLess(_, _)
StrLess(s, t) ==
    IF t = <<>> THEN FALSE
    ELSE IF s = <<>> THEN TRUE
    ELSE IF Ord(Head(s)) # Ord(Head(t)) THEN Ord(Head(s)) < Ord(Head(t))
    ELSE StrLess(Tail(s), Tail(t))

RECURSIVE lstrip(_)
lstrip(s) == IF s # <<>> /\ Head(s) \in Whitespace THEN lstrip(Tail(s)) ELSE s

RECURSIVE rstrip(_)
rstrip(s) ==
    IF s # <<>> /\ s[Len(s)] \in Whitespace THEN rstrip(SubSeq(s, 1, Len(s) - 1)) ELSE s

\* str.strip()
strip(s) == rstrip(lstrip(s))

\* Length of the longest prefix of s without whitespace.
RECURSIVE WordLen(_)
WordLen(s) == IF s = <<>> \/ Head(s) \in Whitespace THEN 0 ELSE 1 + WordLen(Tail(s))

\* str.split() without arguments: the runs of non-whitespace, in order.
RECURSIVE split(_)
split(s) ==
    IF s = <<>> THEN <<>>
    ELSE IF Head(s) \in Whitespace THEN split(Tail(s))
    ELSE <<SubSeq(s, 1, WordLen(s))>> \o split(SubSeq(s, WordLen(s) + 1, Len(s)))

RECURSIVE DigitsVal(_)
DigitsVal(s) ==
    IF s = <<>> THEN 0
    ELSE 10 * DigitsVal(SubSeq(s, 1, Len(s) - 1)) + DigitVal(s[Len(s)])

\* The digits of an int() argument, after strip() and an optional sign.
IntBody(s) ==
    LET t == strip(s)
    IN  IF t # <<>> /\ t[1] \in {"+", "-"} THEN Tail(t) ELSE t

\* int(s) does not raise ValueError.
IntValid(s) == IntBody(s) # <<>> /\ \A i \in 1..Len(IntBody(s)) : IntBody(s)[i] \in Digits

\* int(s) for a valid s.
IntValue(s) ==
    LET t == strip(s)
    IN  IF t # <<>> /\ t[1] = "-" THEN 0 - DigitsVal(IntBody(s)) ELSE DigitsVal(IntBody(s))

Reverse(s) == [i \in 1..Len(s) |-> s[Len(s) + 1 - i]]

SeqToSet(s) == {s[i] : i \in 1..Len(s)}

\* Some enumeration of a finite set (a Python set's iteration order).
RECURSIVE SetToSeq(_)
SetToSeq(S) ==
    IF S = {} THEN <<>>
    ELSE LET x == CHOOSE y \in S : TRUE IN <<x>> \o SetToSeq(S \ {x})

(***************************************************************************)
(* Documents: what root.find(query) returns for each configured query.     *)
(***************************************************************************)
NoEl == [present |-> FALSE, text |-> <<>>]

El(text) == [present |-> TRUE, text |-> text]

Doc(relpath, year, month, day, title, tags, summary) ==
    [relpath |-> relpath, year |-> year, month |-> month, day |-> day,
     title |-> title, tags |-> tags, summary |-> summary]

T1 == El(<<"1">>)

T2 == El(<<"2">>)

T2020 == El(<<"2", "0", "2", "0">>)

T2021 == El(<<"2", "0", "2", "1">>)

\* The scanned inputs: complete records with equal and different dates, and
\* records whose date or title element is missing, empty, zero or not a number.
Docs ==
    { Doc("A", T2020, T1, T1, El(<<"A">>), El(<<"b", " ", "a">>), TRUE),
      Doc("B", T2020, T1, T1, El(<<"B">>), El(<<" ", "a", "\n", "a", "b", "\t">>), FALSE),
      Doc("C", T2021, T1, T1, El(<<"C">>), NoEl, FALSE),
      Doc("D", T2020, T2, T1, El(<<>>), El(<<>>), FALSE),
      Doc("E", El(<<" ", "2", "0", "2", "0", "\n">>), T1, T2, El(<<"E">>), El(<<"B">>), FALSE),
      Doc("F", El(<<>>), T1, T1, El(<<"F">>), El(<<"B">>), FALSE),
      Doc("H", T2020, T1, El(<<"0">>), El(<<"H">>), El(<<"a", "a">>), FALSE),
      Doc("I", T2021, T2, T2, NoEl, El(<<"c", " ", "b">>), TRUE),
      Doc("J", El(<<"2", "x">>), T1, T1, El(<<"J">>), El(<<"a">>), FALSE) }

\* The --state-* options: all given, none given (the default), or one of the
\* queries of the retention test and of the tags missing.
Fields == {"year", "month", "day", "title", "tags", "summary"}

XPaths ==
    { [f \in Fields |-> TRUE], [f \in Fields |-> FALSE] }
    \cup { [f \in Fields |-> f # g] : g \in Fields \ {"summary"} }

(***************************************************************************)
(* State.decode                                                            *)
(***************************************************************************)
\* root.find(self._xp<field>) when the query is configured, else no lookup.
Found(doc, field) == IF xp[field] THEN doc[field] ELSE NoEl

\* int(el.text) raises ValueError for one of year, month, day.
DecodeRaises(doc) ==
    \E f \in {"year", "month", "day"} :
        /\ Found(doc, f).present
        /\ Found(doc, f).text # <<>>
        /\ ~IntValid(Found(doc, f).text)

\* year / month / day: 0, or int(el.text) if el.text else 0.
DecodeNumber(doc, field) ==
    LET el == Found(doc, field)
    IN  IF el.present /\ el.text # <<>> THEN IntValue(el.text) ELSE 0

\* title: None, or "".join(el.itertext()).
DecodeTitle(doc) ==
    LET el == Found(doc, "title")
    IN  [some |-> el.present, str |-> el.text]

\* tags: set(el.text.split() if el.text else []).
DecodeTags(doc) ==
    LET el == Found(doc, "tags")
    IN  IF el.present THEN SeqToSet(split(el.text)) ELSE {}

\* summary: None, or XmlWrapper(el).
DecodeSummary(doc) == IF xp["summary"] THEN doc.summary ELSE FALSE

\* A retention test that forgets the day.
DecodeDiscards_noday(doc) ==
    \/ DecodeNumber(doc, "year") = 0
    \/ DecodeNumber(doc, "month") = 0
    \/ ~DecodeTitle(doc).some

\* if year == 0 or month == 0 or day == 0 or title is None: return
DecodeDiscards(doc) ==
    \/ DecodeNumber(doc, "year") = 0
    \/ DecodeNumber(doc, "month") = 0
    \/ DecodeNumber(doc, "day") = 0
    \/ ~DecodeTitle(doc).some

DecodeResult(doc) ==
    [relpath |-> doc.relpath,
     year |-> DecodeNumber(doc, "year"),
     month |-> DecodeNumber(doc, "month"),
     day |-> DecodeNumber(doc, "day"),
     title |-> DecodeTitle(doc).str,
     tags |-> DecodeTags(doc),
     summary |-> DecodeSummary(doc)]

\* A decode that puts the new record first.
Retain_first(states, result) == <<result>> \o states

\* self._states.append(result)
Retain(states, result) == Append(states, result)

\* One pass of the loop of Scan.run: state.decode(root, relpath).
decode(doc) ==
    /\ scan_pc = "scan"
    /\ Len(scanned) < MaxDocs
    /\ scanned' = Append(scanned, doc)
    /\ IF DecodeRaises(doc)
       THEN /\ scan_pc' = "error"
            /\ scan_raised' = "ValueError"
            /\ UNCHANGED <<self_states, self_tags>>
       ELSE /\ self_tags' = self_tags \cup DecodeTags(doc)
            /\ self_states' =
                   IF DecodeDiscards(doc) THEN self_states
                   ELSE Retain(self_states, DecodeResult(doc))
            /\ UNCHANGED <<scan_pc, scan_raised>>
    /\ UNCHANGED <<xp, sorted_states, sorted_tags, sorted_state_tags>>
    /\ UNCHANGED <<buildVars, wrapVars, paramVars, txVars>>

(***************************************************************************)
(* State.get, State.tags                                                   *)
(***************************************************************************)
\* operator.itemgetter("year", "month", "day"): tuple comparison.
KeyLess(a, b) ==
    \/ a.year < b.year
    \/ a.year = b.year /\ a.month < b.month
    \/ a.year = b.year /\ a.month = b.month /\ a.day < b.day

\* Insert x into the ascending s after every element that is not greater.
RECURSIVE InsertByKey(_, _)
InsertByKey(x, s) ==
    IF s = <<>> THEN <<x>>
    ELSE IF KeyLess(x, Head(s)) THEN <<x>> \o s
    ELSE <<Head(s)>> \o InsertByKey(x, Tail(s))

\* A stable ascending sort by key.
RECURSIVE SortByKey(_)
SortByKey(s) ==
    IF s = <<>> THEN <<>>
    ELSE InsertByKey(s[Len(s)], SortByKey(SubSeq(s, 1, Len(s) - 1)))

\* sorted(seq, key=..., reverse=True): the list is reversed, sorted stably
\* ascending and reversed again, which keeps equal keys in their first order.
SortedReverse(s) == Reverse(SortByKey(Reverse(s)))

\* A sort that is descending but turns the order of equal keys around.
get_unstable == Reverse(SortByKey(self_states))

get == SortedReverse(self_states)

RECURSIVE InsertStr(_, _)
InsertStr(x, s) ==
    IF s = <<>> THEN <<x>>
    ELSE IF StrLess(x, Head(s)) THEN <<x>> \o s
    ELSE <<Head(s)>> \o InsertStr(x, Tail(s))

RECURSIVE SortStr(_)
SortStr(s) ==
    IF s = <<>> THEN <<>>
    ELSE InsertStr(s[Len(s)], SortStr(SubSeq(s, 1, Len(s) - 1)))

\* The tags sorted the way the states are: descending.
tags_descending == Reverse(SortStr(SetToSeq(self_tags)))

\* sorted(self._tags)
tags == SortStr(SetToSeq(self_tags))

(***************************************************************************)
(* Scan.run after the loop: the sorted and the tag-partitioned views       *)
(***************************************************************************)
\* filter(lambda i: tag in i["tags"], sorted_states), with the value the
\* variable tag has when the lambda runs.
FilterByTag(tag, seq) == SelectSeq(seq, LAMBDA i : tag \in i.tags)

\* What iterating sorted_state_tags[t] yields in the template.  Python 2's
\* filter() builds the list inside the loop.  Python 3's filter() is lazy:
\* the lambda runs during the render, after the loop, when the variable tag
\* holds the last element of sorted_tags.
TagStates(lazy, t, stags, sstates) ==
    FilterByTag(IF lazy THEN stags[Len(stags)] ELSE t, sstates)

ScanViews ==
    /\ scan_pc = "scan"
    /\ scan_pc' = "views"
    /\ sorted_states' = get
    /\ sorted_tags' = tags
    /\ \E lazy \in BOOLEAN :
           sorted_state_tags' =
               [t \in SeqToSet(tags) |-> TagStates(lazy, t, tags, get)]
    /\ UNCHANGED <<xp, scanned, self_states, self_tags, scan_raised>>
    /\ UNCHANGED <<buildVars, wrapVars, paramVars, txVars>>

ScanInitWith(x) ==
    /\ xp = x
    /\ scanned = <<>>
    /\ self_states = <<>>
    /\ self_tags = {}
    /\ sorted_states = <<>>
    /\ sorted_tags = <<>>
    /\ sorted_state_tags = <<>>
    /\ scan_pc = "scan"
    /\ scan_raised = "none"

ScanInit == \E x \in XPaths : ScanInitWith(x)

ScanInitDefault == ScanInitWith([f \in Fields |-> FALSE])

ScanNext ==
    \/ \E doc \in Docs : decode(doc)
    \/ ScanViews

(***************************************************************************)
(* Paths (posixpath) and the file system                                   *)
(***************************************************************************)
\* os.sep
os_sep == "/"

\* The index of the last c in s, 0 when there is none (str.rfind, plus one).
RECURSIVE LastIndex(_, _)
LastIndex(s, c) ==
    IF s = <<>> THEN 0
    ELSE IF s[Len(s)] = c THEN Len(s)
    ELSE LastIndex(SubSeq(s, 1, Len(s) - 1), c)

RECURSIVE RStripSep(_)
RStripSep(s) ==
    IF s # <<>> /\ s[Len(s)] = os_sep THEN RStripSep(SubSeq(s, 1, Len(s) - 1)) ELSE s

\* os.path.dirname: up to the last separator, trailing separators removed
\* unless nothing else is left.
dirname(p) ==
    LET head == SubSeq(p, 1, LastIndex(p, os_sep))
    IN  IF head # <<>> /\ RStripSep(head) # <<>> THEN RStripSep(head) ELSE head

\* os.path.join(a, b)
join(a, b) ==
    IF b # <<>> /\ Head(b) = os_sep THEN b
    ELSE IF a = <<>> \/ a[Len(a)] = os_sep THEN a \o b
    ELSE a \o <<os_sep>> \o b

\* The components of a path, the empty ones between separators included.
RECURSIVE Components(_)
Components(p) ==
    IF LastIndex(p, os_sep) = 0 THEN <<p>>
    ELSE Components(SubSeq(p, 1, LastIndex(p, os_sep) - 1))
             \o <<SubSeq(p, LastIndex(p, os_sep) + 1, Len(p))>>

\* Walk the components from the directory at: "" and "." stay, ".." goes up
\* (above the working directory it is kept), a name goes down.
RECURSIVE Walk(_, _)
Walk(at, comps) ==
    IF comps = <<>> THEN at
    ELSE LET c == Head(comps)
         IN  IF c = <<>> \/ c = <<".">> THEN Walk(at, Tail(comps))
             ELSE IF c = <<".", ".">> /\ at # <<>> /\ at[Len(at)] # <<".", ".">>
                  THEN Walk(SubSeq(at, 1, Len(at) - 1), Tail(comps))
             ELSE Walk(Append(at, c), Tail(comps))

\* The file or directory a relative path names, from the working directory.
Resolve(p) == Walk(<<>>, Components(p))

\* The working directory and what lies above it are directories.
IsDirIn(dirs, r) == r \in dirs \/ \A i \in 1..Len(r) : r[i] = <<".", ".">>

\* os.path.isdir
isdir(dirs, p) == p # <<>> /\ IsDirIn(dirs, Resolve(p))

\* os.path.isfile
isfile(files, p) == p # <<>> /\ Resolve(p) \in DOMAIN files

\* The directories os.makedirs(p) leaves: p and the directories above it.
MadeDirs(dirs, p) ==
    dirs \cup {SubSeq(Resolve(p), 1, n) : n \in 1..Len(Resolve(p))}

\* open(p, "wt") fails: p names a directory, or lies in none.
OpenError(dirs, p) ==
    IF p = <<>> \/ ~IsDirIn(dirs, SubSeq(Resolve(p), 1, Len(Resolve(p)) - 1))
    THEN "FileNotFoundError"
    ELSE IF IsDirIn(dirs, Resolve(p)) \/ p[Len(p)] = os_sep THEN "IsADirectoryError"
    ELSE "none"

(***************************************************************************)
(* Xml2HtmlApp.checktimes, Xml2HtmlApp.build_from_data                     *)
(***************************************************************************)
\* True to continue, false if up to date.
checktimes(files, stime, output) ==
    IF ~isfile(files, output) THEN TRUE
    ELSE stime > files[Resolve(output)].mtime

FilePrefix == <<"f", "i", "l", "e", ":">>

\* s.startswith("file:")
startswith(s, prefix) == Len(s) >= Len(prefix) /\ SubSeq(s, 1, Len(prefix)) = prefix

\* s[5:]
Remainder(s) == SubSeq(s, Len(FilePrefix) + 1, Len(s))

\* A test that lets every remainder through.
HasSeparator_never(output) == FALSE

\* '/' in output or os.sep in output
HasSeparator(output) ==
    \E i \in 1..Len(output) : output[i] = "/" \/ output[i] = os_sep

\* log(action, input, output): one printed line.
LogLine(action, input, output) == [action |-> action, input |-> input, output |-> output]

\* What renderer.get() and renderer.get_section(s) hold: the name of the
\* part of the render, the empty name for the primary stream.
RenderedPrimary == [of |-> <<>>]

RenderedSection(s) == [of |-> s]

\* The file system and the call's trace after handle.write(content) to p.
WriteFile(st, p, action_input, content) ==
    IF OpenError(st.dirs, p) # "none"
    THEN [st EXCEPT !.raised = OpenError(st.dirs, p),
                    !.log = Append(st.log, LogLine("BUILD", action_input, p))]
    ELSE [st EXCEPT
            !.files = [r \in DOMAIN st.files \cup {Resolve(p)} |->
                          IF r = Resolve(p) THEN [mtime |-> clock, content |-> content]
                          ELSE st.files[r]],
            !.written = st.written \cup {Resolve(p)},
            !.log = Append(st.log, LogLine("BUILD", action_input, p))]

\* The body of the loop over the sections, for section s.
BuildSection(st, input, outdir, s) ==
    IF ~startswith(s, FilePrefix) THEN st
    ELSE IF HasSeparator(Remainder(s)) THEN st
    ELSE IF checktimes(st.files, input_mtime, Remainder(s))
         THEN WriteFile(st, join(outdir, Remainder(s)), input, RenderedSection(s))
         ELSE [st EXCEPT !.log = Append(st.log, LogLine("NOCHG", input, Remainder(s)))]

\* for s in sections, until an exception ends the call.
RECURSIVE BuildSections(_, _, _, _)
BuildSections(st, input, outdir, secs) ==
    IF secs = <<>> \/ st.raised # "none" THEN st
    ELSE BuildSections(BuildSection(st, input, outdir, Head(secs)), input, outdir, Tail(secs))

\* The primary output: written when checktimes says so.
BuildPrimary(st, input, output) ==
    IF checktimes(st.files, input_mtime, output)
    THEN WriteFile(st, output, input, RenderedPrimary)
    ELSE [st EXCEPT !.log = Append(st.log, LogLine("NOCHG", input, output))]

\* outdir = os.path.dirname(output); os.makedirs(outdir) unless it is there.
BuildOutdir(st, output) ==
    IF isdir(st.dirs, dirname(output)) THEN st
    ELSE IF dirname(output) = <<>> THEN [st EXCEPT !.raised = "FileNotFoundError"]
    ELSE [st EXCEPT !.dirs = MadeDirs(st.dirs, dirname(output))]

\* build_from_data(input, output, context), the render giving sections.
BuildResult(input, output, sections) ==
    LET st0 == [files |-> fs_files, dirs |-> fs_dirs, log |-> <<>>,
                written |-> {}, raised |-> "none"]
        st1 == BuildOutdir(st0, output)
        st2 == IF st1.raised # "none" THEN st1 ELSE BuildPrimary(st1, input, output)
    IN  BuildSections(st2, input, dirname(output), sections)

InputPath == <<"i", "n">>

build_from_data(output, sections) ==
    /\ build_raised = "none"
    /\ build_output' = output
    /\ build_sections' = sections
    /\ LET st == BuildResult(InputPath, output, sections)
       IN  /\ fs_files' = st.files
           /\ fs_dirs' = st.dirs
           /\ build_log' = st.log
           /\ build_written' = st.written
           /\ build_raised' = st.raised
    /\ UNCHANGED <<input_mtime, clock>>
    /\ UNCHANGED <<scanVars, wrapVars, paramVars, txVars>>

(***************************************************************************)
(* The inputs of the output stage                                          *)
(***************************************************************************)
\* -o: a file in a directory below the working directory, or a bare file
\* name (whose dirname is "", which os.makedirs refuses).
Outputs == { <<"o", "/", "p">>, <<"p">> }

\* The named sections a template may produce.
SectionNames ==
    { FilePrefix \o <<"a">>,
      FilePrefix \o <<".", ".", "/", "a">>,
      FilePrefix \o <<".", ".">>,
      FilePrefix,
      <<"f", "i", "l", "e", "a">> }

\* The sections of one render: distinct names in the order get_sections gives.
SectionLists ==
    { q \in UNION { [1..n -> SectionNames] : n \in 0..MaxSections } :
        \A i, j \in 1..Len(q) : i # j => q[i] # q[j] }

OldFile == [mtime |-> 0, content |-> [of |-> <<"?">>]]

NewFile == [mtime |-> 2, content |-> [of |-> <<"?">>]]

\* The files that may be there before the first build: a in the working
\* directory, a and p in the output directory, each older or newer than the
\* input.
InitialPaths == { << <<"a">> >>, << <<"o">>, <<"a">> >>, << <<"o">>, <<"p">> >> }

InitialFiles ==
    UNION { [P -> {OldFile, NewFile}] : P \in SUBSET InitialPaths }

BuildInitWith(files) ==
    /\ fs_files = files
    /\ fs_dirs = {SubSeq(r, 1, Len(r) - 1) : r \in DOMAIN files} \ {<<>>}
    /\ input_mtime = 1
    /\ clock = 3
    /\ build_output = <<>>
    /\ build_sections = <<>>
    /\ build_log = <<>>
    /\ build_written = {}
    /\ build_raised = "none"

BuildInit == \E files \in InitialFiles : BuildInitWith(files)

BuildIdle == BuildInitWith(<<>>)

BuildNext ==
    \E output \in Outputs, sections \in SectionLists : build_from_data(output, sections)

(***************************************************************************)
(* XmlWrapper.__init__                                                     *)
(***************************************************************************)
\* str.find(c): the 0-based index of the first c, -1 when there is none.
RECURSIVE find(_, _)
find(s, c) ==
    IF s = <<>> THEN -1
    ELSE IF Head(s) = c THEN 0
    ELSE IF find(Tail(s), c) < 0 THEN -1
    ELSE 1 + find(Tail(s), c)

\* A slice index as Python reads it: a negative one counts from the end,
\* and the result is kept within the string.
SliceIndex(s, i) ==
    LET j == IF i < 0 THEN i + Len(s) ELSE i
    IN  IF j < 0 THEN 0 ELSE IF j > Len(s) THEN Len(s) ELSE j

\* s[start:stop]
Slice(s, start, stop) == SubSeq(s, SliceIndex(s, start) + 1, SliceIndex(s, stop))

\* s[start:]
SliceFrom(s, start) == SubSeq(s, SliceIndex(s, start) + 1, Len(s))

\* ns = tag[1:end] when the tag starts with "{", else "".
WrapperNs(tag) ==
    IF tag[1] = "{" THEN Slice(tag, 1, find(tag, "}")) ELSE <<>>

\* tag = tag[end + 1:] when the tag starts with "{", else the tag.
WrapperTagname(tag) ==
    IF tag[1] = "{" THEN SliceFrom(tag, find(tag, "}") + 1) ELSE tag

\* XmlWrapper(node) for a node with this tag.
XmlWrapper(tag) ==
    /\ node_tag' = tag
    /\ wrapper_ns' = WrapperNs(tag)
    /\ wrapper_tagname' = WrapperTagname(tag)
    /\ wrapped' = TRUE
    /\ UNCHANGED <<scanVars, buildVars, paramVars, txVars>>

TagChars == {"{", "}", "n"}

\* The tags of the wrapped nodes: not empty, braces anywhere.
Tags == UNION { [1..n -> TagChars] : n \in 1..MaxTagLen }

WrapInit ==
    /\ node_tag = <<>>
    /\ wrapper_ns = <<>>
    /\ wrapper_tagname = <<>>
    /\ wrapped = FALSE

WrapNext == \E tag \in Tags : XmlWrapper(tag)

(***************************************************************************)
(* Xml2HtmlApp.init: the template context                                  *)
(***************************************************************************)
\* The values of the context: a string, True, and the two library objects.
StrValue(str) == [kind |-> "str", str |-> str]

TrueValue == [kind |-> "True", str |-> <<>>]

StdLibValue == [kind |-> "template.StdLib", str |-> <<>>]

LibValue == [kind |-> "Lib", str |-> <<>>]

\* param.split("=", 1) cut at the last "=" instead of the first.
SplitOnce_last(param) ==
    IF LastIndex(param, "=") = 0 THEN <<param>>
    ELSE << SubSeq(param, 1, LastIndex(param, "=") - 1),
            SubSeq(param, LastIndex(param, "=") + 1, Len(param)) >>

\* param.split("=", 1)
SplitOnce(param) ==
    IF find(param, "=") < 0 THEN <<param>>
    ELSE << Slice(param, 0, find(param, "=")), SliceFrom(param, find(param, "=") + 1) >>

\* name = parts[0].strip()
ParamName(param) == strip(SplitOnce(param)[1])

\* value = parts[1].strip() if len(parts) == 2 else True
ParamValue(param) ==
    IF Len(SplitOnce(param)) = 2 THEN StrValue(strip(SplitOnce(param)[2])) ELSE TrueValue

\* context[name] = value
SetItem(ctx, name, value) ==
    [n \in DOMAIN ctx \cup {name} |-> IF n = name THEN value ELSE ctx[n]]

\* One pass of the loop over args.params.
InitParam ==
    /\ init_pc = "params"
    /\ param_i < Len(params)
    /\ param_i' = param_i + 1
    /\ context' = SetItem(context, ParamName(params[param_i + 1]),
                          ParamValue(params[param_i + 1]))
    /\ UNCHANGED <<params, init_pc>>
    /\ UNCHANGED <<scanVars, buildVars, wrapVars, txVars>>

LibName == <<"l", "i", "b">>

Xml2htmlName == <<"x", "m", "l", "2", "h", "t", "m", "l">>

\* After the loop: context["lib"], context["xml2html"], self.context.
InitLibraries ==
    /\ init_pc = "params"
    /\ param_i = Len(params)
    /\ context' = SetItem(SetItem(context, LibName, StdLibValue), Xml2htmlName, LibValue)
    /\ init_pc' = "ready"
    /\ UNCHANGED <<params, param_i>>
    /\ UNCHANGED <<scanVars, buildVars, wrapVars, txVars>>

\* The -D options: with and without "=", with whitespace around the name and
\* the value, with a second "=", with an empty name or value, repeated
\* names, and the name of a library.
ParamInputs ==
    { <<"a", "=", "b">>,
      <<" ", "a", " ", "=", " ", "b", "\t">>,
      <<"a", "=", "b", "=", "c">>,
      <<"a">>,
      <<" ", "b", " ">>,
      <<"b", "=">>,
      <<"=", "b">>,
      <<"b", " ", "c", "=", "a", " ", "b">>,
      <<"l", "i", "b", "=", "b">> }

ParamLists == UNION { [1..n -> ParamInputs] : n \in 0..MaxParams }

ParamInitWith(list) ==
    /\ params = list
    /\ param_i = 0
    /\ context = <<>>
    /\ init_pc = "params"

ParamInit == \E list \in ParamLists : ParamInitWith(list)

ParamIdle == ParamInitWith(<<>>)

ParamNext == InitParam \/ InitLibraries

(***************************************************************************)
(* Token Resolver (spec.md 4.1)                                            *)
(***************************************************************************)
\* The separator that ends a prefix.
Separator == "/"

\* A prefix passed on as it is.
NormalizePrefix_asis(prefix) == prefix

\* The inherited prefix, ended by the separator when it is not empty and
\* does not end with it.
NormalizePrefix(prefix) ==
    IF prefix # <<>> /\ prefix[Len(prefix)] # Separator
    THEN Append(prefix, Separator)
    ELSE prefix

\* (namespace, localName) of a qualified tag: between the braces and after
\* them when the tag begins with a brace-delimited prefix.
SplitTag(tag) ==
    IF tag # <<>> /\ tag[1] = "{" /\ find(tag, "}") > 0
    THEN [namespace |-> SubSeq(tag, 2, find(tag, "}")),
          localName |-> SubSeq(tag, find(tag, "}") + 2, Len(tag))]
    ELSE [namespace |-> <<>>, localName |-> tag]

\* resolve(node, inheritedPrefix, registry) -> token
resolve(node, inheritedPrefix, registry) ==
    LET n == SplitTag(node.tag)
        prefix == NormalizePrefix(inheritedPrefix)
    IN  IF n.namespace # <<>>
        THEN IF n.namespace \in DOMAIN registry.aliases
             THEN prefix \o registry.aliases[n.namespace] \o <<":">> \o n.localName
             ELSE prefix \o <<"{">> \o n.namespace \o <<"}">> \o n.localName
        ELSE prefix \o n.localName

(***************************************************************************)
(* Transducer (spec.md 4.3): nodes, registries, the text-emission stack    *)
(***************************************************************************)
Node(tag, text, tail, children) ==
    [tag |-> tag, text |-> text, tail |-> tail, children |-> children]

RuleEntry(pre, template, post, nestedRegistry, nestedPrefix, textEmit) ==
    [preTemplate |-> pre, template |-> template, postTemplate |-> post,
     nestedRegistry |-> nestedRegistry, nestedPrefix |-> nestedPrefix,
     textEmit |-> textEmit]

urn_x == <<"u", "r", "n", ":", "x">>
foo == <<"f", "o", "o">>

\* The qualified tag the markup tree gives a node of this namespace and name.
QName(namespace, localName) ==
    IF namespace = <<>> THEN localName
    ELSE <<"{">> \o namespace \o <<"}">> \o localName

NoAliases == [ns \in {} |-> <<>>]

\* The loaded registries by path.  R reuses itself below "r", renders a
\* template for a:foo, delegates to S below "d" and names a registry that
\* cannot be located below "m"; S is scoped under the prefix p.
Registries ==
    [R |-> [aliases |-> (urn_x :> <<"a">>),
            rules |->
                (<<"r">> :> RuleEntry("pre.t", "", "post.t", "", <<>>, "emit"))
             @@ (<<"a", ":">> \o foo :>
                    RuleEntry("", "foo.t", "", "", <<>>, "suppress"))
             @@ (<<"d">> :> RuleEntry("", "", "post.t", "S", <<"p">>, "unset"))
             @@ (<<"m">> :> RuleEntry("pre.t", "", "", "X", <<>>, "emit"))],
     S |-> [aliases |-> NoAliases,
            rules |->
                (<<"p", "/", "{">> \o urn_x \o <<"}">> \o foo :>
                    RuleEntry("pre.t", "", "", "", <<"p", "/">>, "emit"))
             @@ (<<"p", "/", "r">> :>
                    RuleEntry("", "echo.t", "", "", <<>>, "suppress"))
             @@ (<<"r">> :> RuleEntry("", "", "post.t", "R", <<"p">>, "unset"))]]

Templates == {"pre.t", "post.t", "foo.t", "echo.t"}

\* The state of one run as the calls thread it.
RunState(stack, out) ==
    [stack |-> stack, out |-> out, calls |-> <<>>, events |-> <<>>,
     raised |-> "none"]

Top(stack) == stack[Len(stack)]

\* Step 1: push textEmit when it is set.
Push(st, entry, path) ==
    IF entry.textEmit # "unset"
    THEN [st EXCEPT !.stack = Append(@, entry.textEmit),
                    !.events = Append(@, [op |-> "push", path |-> path])]
    ELSE st

\* A release that an error skips.
Release_unlessRaised(st, entry, path) ==
    IF entry.textEmit # "unset" /\ st.raised = "none"
    THEN [st EXCEPT !.stack = SubSeq(@, 1, Len(@) - 1),
                    !.events = Append(@, [op |-> "pop", path |-> path])]
    ELSE st

\* Step 5: pop what step 1 pushed, also when a step between them raised.
Release(st, entry, path) ==
    IF entry.textEmit # "unset"
    THEN [st EXCEPT !.stack = SubSeq(@, 1, Len(@) - 1),
                    !.events = Append(@, [op |-> "pop", path |-> path])]
    ELSE st

\* Render a template slot and append the result; nothing for an unset slot
\* or after an error.
Render(st, id, node, failing) ==
    IF id = "" \/ st.raised # "none" THEN st
    ELSE IF id \in failing THEN [st EXCEPT !.raised = "RenderError"]
    ELSE [st EXCEPT !.out = Append(@, [kind |-> "render", id |-> id,
                                       str |-> node.tag])]

\* Literal text goes to the output when the top of the stack is "emit".
EmitText(st, text) ==
    IF st.raised = "none" /\ Top(st.stack) = "emit" /\ text # <<>>
    THEN [st EXCEPT !.out = Append(@, [kind |-> "text", id |-> "",
                                       str |-> text])]
    ELSE st

RECURSIVE ProcessNode(_, _, _, _, _, _)
RECURSIVE ProcessChildren(_, _, _, _, _, _)
RECURSIVE ProcessChildrenFrom(_, _, _, _, _, _, _)

\* An unmatched node whose children are processed all the same.
Unmatched_descends(node, path, reg, prefix, failing, st) ==
    ProcessChildren(node, path, reg, prefix, failing, st)

\* No RuleEntry: the node is skipped entirely.
Unmatched(node, path, reg, prefix, failing, st) == st

\* Step 3: the template, else the nested registry, else the same registry.
Body(node, path, reg, entry, failing, st) ==
    IF st.raised # "none" THEN st
    ELSE IF entry.template # "" THEN Render(st, entry.template, node, failing)
    ELSE IF entry.nestedRegistry # ""
    THEN IF entry.nestedRegistry \in DOMAIN Registries
         THEN ProcessChildren(node, path, entry.nestedRegistry,
                              entry.nestedPrefix, failing, st)
         ELSE [st EXCEPT !.raised = "ResolutionError"]
    ELSE ProcessChildren(node, path, reg, entry.nestedPrefix, failing, st)

\* Steps 1 to 5 for a node with a RuleEntry.
Matched(node, path, reg, entry, failing, st) ==
    Release(
        Render(
            Body(node, path, reg, entry, failing,
                 Render(Push(st, entry, path), entry.preTemplate, node, failing)),
            entry.postTemplate, node, failing),
        entry, path)

\* processNode(node, registry, prefix); the call is recorded when it ends.
ProcessNode(node, path, reg, prefix, failing, st) ==
    LET token == resolve(node, prefix, Registries[reg])
        rules == Registries[reg].rules
        end == IF token \in DOMAIN rules
               THEN Matched(node, path, reg, rules[token], failing, st)
               ELSE Unmatched(node, path, reg, prefix, failing, st)
    IN  [end EXCEPT !.calls =
            Append(@, [path |-> path, registry |-> reg, prefix |-> prefix,
                       token |-> token, matched |-> token \in DOMAIN rules,
                       before |-> st.stack, after |-> end.stack,
                       outBefore |-> Len(st.out), outAfter |-> Len(end.out),
                       raised |-> end.raised])]

\* The children from the i-th on: processNode, then the tail.
ProcessChildrenFrom(node, path, i, reg, prefix, failing, st) ==
    IF i > Len(node.children) \/ st.raised # "none" THEN st
    ELSE ProcessChildrenFrom(node, path, i + 1, reg, prefix, failing,
             EmitText(ProcessNode(node.children[i], Append(path, i), reg,
                                  prefix, failing, st),
                      node.children[i].tail))

\* processChildren(node, registry, prefix)
ProcessChildren(node, path, reg, prefix, failing, st) ==
    ProcessChildrenFrom(node, path, 1, reg, prefix, failing,
                        EmitText(st, node.text))

(***************************************************************************)
(* One transduction run                                                    *)
(***************************************************************************)
LeafFoo == Node(QName(urn_x, foo), <<"x">>, <<"y">>, <<>>)

LeafR == Node(<<"r">>, <<>>, <<"z">>, <<>>)

\* A node no registry has a rule for, above nodes that rules do match.
Unknown == Node(<<"u">>, <<"x">>, <<"y">>, <<LeafR, LeafFoo>>)

Trees ==
    { Node(<<"r">>, <<"t">>, <<>>, <<LeafFoo, Unknown, LeafR>>),
      Node(<<"d">>, <<"t">>, <<>>, <<LeafFoo, LeafR>>),
      Node(<<"m">>, <<"t">>, <<>>, <<LeafR>>),
      Unknown,
      Node(<<"r">>, <<>>, <<>>,
           << Node(<<"d">>, <<>>, <<"w">>, <<LeafFoo, Unknown>>) >>) }

\* The templates whose render fails in a run: none or one.
Failings == {{}} \cup { {t} : t \in Templates }

RootPrefixes == { <<>>, <<"p">> }

Namespaces == { <<>>, urn_x, <<"y">> }

LocalNames == { foo, <<"b">> }

Prefixes == { <<>>, <<"p">>, <<"p", "/">>, <<"/">> }

AliasTables ==
    { NoAliases, urn_x :> <<"a">>, (urn_x :> <<"a">>) @@ (<<"y">> :> <<"b">>) }

\* resolve called for a node of this namespace and local name.
ResolveToken(namespace, localName, prefix, aliases) ==
    /\ tx_pc = "idle"
    /\ tx_input' = [namespace |-> namespace, localName |-> localName,
                    prefix |-> prefix, aliases |-> aliases]
    /\ tx_token' = resolve(Node(QName(namespace, localName), <<>>, <<>>, <<>>),
                           prefix,
                           [aliases |-> aliases, rules |-> NoAliases])
    /\ tx_pc' = "resolved"
    /\ UNCHANGED <<tx_stack, tx_out, tx_calls, tx_events, tx_raised>>
    /\ UNCHANGED <<scanVars, buildVars, wrapVars, paramVars>>

\* processNode(root, registry, prefix) on the run's stack and accumulator.
processNode(root, reg, prefix, failing) ==
    /\ tx_pc = "idle"
    /\ tx_input' = [root |-> root, registry |-> reg, prefix |-> prefix,
                    failing |-> failing]
    /\ \E end \in { ProcessNode(root, <<>>, reg, prefix, failing,
                                RunState(tx_stack, tx_out)) } :
           /\ tx_stack' = end.stack
           /\ tx_out' = end.out
           /\ tx_calls' = end.calls
           /\ tx_events' = end.events
           /\ tx_raised' = end.raised
    /\ tx_pc' = "done"
    /\ UNCHANGED tx_token
    /\ UNCHANGED <<scanVars, buildVars, wrapVars, paramVars>>

\* A run starts with one implicit "suppress" frame and an empty accumulator.
TxInit ==
    /\ tx_pc = "idle"
    /\ tx_input = <<>>
    /\ tx_token = <<>>
    /\ tx_stack = <<"suppress">>
    /\ tx_out = <<>>
    /\ tx_calls = <<>>
    /\ tx_events = <<>>
    /\ tx_raised = "none"

TxNext ==
    \/ \E namespace \in Namespaces, localName \in LocalNames,
          prefix \in Prefixes, aliases \in AliasTables :
           ResolveToken(namespace, localName, prefix, aliases)
    \/ \E root \in Trees, reg \in DOMAIN Registries, prefix \in RootPrefixes,
          failing \in Failings :
           processNode(root, reg, prefix, failing)

(***************************************************************************)
(* Specifications                                                          *)
(***************************************************************************)
\* Scan.run: the decode loop and the views.
InitScan == ScanInit /\ BuildIdle /\ WrapInit /\ ParamIdle /\ TxInit

SpecScan == InitScan /\ [][ScanNext]_vars

\* build_from_data, called for one input after the other.
InitBuild == BuildInit /\ ScanInitDefault /\ WrapInit /\ ParamIdle /\ TxInit

SpecBuild == InitBuild /\ [][BuildNext]_vars

\* The wrappers made for the nodes of a tree.
InitWrapper == WrapInit /\ ScanInitDefault /\ BuildIdle /\ ParamIdle /\ TxInit

SpecWrapper == InitWrapper /\ [][WrapNext]_vars

\* Xml2HtmlApp.init.
InitParams == ParamInit /\ ScanInitDefault /\ BuildIdle /\ WrapInit /\ TxInit

SpecParams == InitParams /\ [][ParamNext]_vars

\* Resolving tokens and transducing trees.
InitTransducer == TxInit /\ ScanInitDefault /\ BuildIdle /\ WrapInit /\ ParamIdle

SpecTransducer == InitTransducer /\ [][TxNext]_vars

(***************************************************************************)
(* Claims about the metadata index                                         *)
(***************************************************************************)
\* The inputs whose decode call returned (the last one may have raised).
Decoded ==
    IF scan_raised = "none" THEN scanned ELSE SubSeq(scanned, 1, Len(scanned) - 1)

\* The date as one number (months and days of the inputs are below 100).
DateNumber(r) == r.year * 10000 + r.month * 100 + r.day

RelPaths(s) == [i \in 1..Len(s) |-> s[i].relpath]

\* C1: State.get() returns all retained records ordered by (year, month, day)
\* descending, and records with equal dates in the order they were decoded:
\* neighbours never ascend, and for every date the records of that date are
\* the retained records of that date, in decode order.
C1_GetDescendingStable ==
    \E sorted \in {get} :
        /\ Len(sorted) = Len(self_states)
        /\ \A i \in 1..(Len(sorted) - 1) : DateNumber(sorted[i]) >= DateNumber(sorted[i + 1])
        /\ \A r \in SeqToSet(self_states) :
               SelectSeq(sorted, LAMBDA x : DateNumber(x) = DateNumber(r))
                   = SelectSeq(self_states, LAMBDA x : DateNumber(x) = DateNumber(r))

\* A(2020,1,1), B(2020,1,1), C(2021,1,1) decoded in that order give [C, A, B].
C1_Witness ==
    /\ RelPaths(self_states) = <<"A", "B", "C">>
    /\ RelPaths(get) = <<"C", "A", "B">>
    /\ scan_pc = "views"
    /\ sorted_states = get

\* What the document says about a numeric field: the number in the element
\* the query finds, 0 when there is no query, no element, no text or no number.
FieldNumber(doc, f) ==
    IF xp[f] /\ doc[f].present /\ doc[f].text # <<>> /\ IntValid(doc[f].text)
    THEN IntValue(doc[f].text) ELSE 0

Complete(doc) ==
    /\ FieldNumber(doc, "year") # 0
    /\ FieldNumber(doc, "month") # 0
    /\ FieldNumber(doc, "day") # 0
    /\ xp["title"] /\ doc["title"].present

\* C2: the retained collection holds one record for each decoded document
\* whose year, month and day are non-zero and whose title is present, in
\* decode order, and nothing else; with the query for year, month, day or
\* title not configured nothing is retained.
C2_RetainedExactlyComplete ==
    /\ \E kept \in {SelectSeq(Decoded, Complete)} :
           /\ Len(self_states) = Len(kept)
           /\ \A i \in 1..Len(kept) :
                  /\ self_states[i].relpath = kept[i].relpath
                  /\ self_states[i].year = FieldNumber(kept[i], "year")
                  /\ self_states[i].month = FieldNumber(kept[i], "month")
                  /\ self_states[i].day = FieldNumber(kept[i], "day")
                  /\ self_states[i].title = kept[i]["title"].text
    /\ (\E f \in {"year", "month", "day", "title"} : ~xp[f]) => self_states = <<>>

\* Complete and incomplete documents were decoded, and only the complete
\* ones were kept.
C2_Witness ==
    /\ Len(scanned) = MaxDocs
    /\ scan_raised = "none"
    /\ self_states # <<>>
    /\ Len(self_states) < Len(scanned)
    /\ \E i \in 1..Len(scanned) : scanned[i].relpath = "D"

\* A document whose year, month or day element is missing, empty or not an
\* integer, or whose title is missing.
Incomplete(doc) ==
    \/ \E f \in {"year", "month", "day"} :
           \/ ~Found(doc, f).present
           \/ Found(doc, f).text = <<>>
           \/ ~IntValid(Found(doc, f).text)
    \/ ~Found(doc, "title").present

\* C3: decode never ends in an error because of a document's metadata: an
\* incomplete document is decoded without an exception and is not retained.
C3_DecodeNeverRaises ==
    \A i \in 1..Len(scanned) :
        Incomplete(scanned[i]) =>
            /\ scan_raised = "none"
            /\ \A k \in 1..Len(self_states) : self_states[k].relpath # scanned[i].relpath

\* The whitespace-separated tokens of s: the runs of non-whitespace that
\* whitespace or the ends of s enclose.
TokensOf(s) ==
    { SubSeq(s, ij[1], ij[2]) :
        ij \in { x \in (1..Len(s)) \X (1..Len(s)) :
                   /\ x[1] <= x[2]
                   /\ \A k \in x[1]..x[2] : s[k] \notin Whitespace
                   /\ x[1] = 1 \/ s[x[1] - 1] \in Whitespace
                   /\ x[2] = Len(s) \/ s[x[2] + 1] \in Whitespace } }

\* The tags node of a document: what the tags query finds, if there is one.
TagsNodeText(doc) == IF xp["tags"] /\ doc["tags"].present THEN doc["tags"].text ELSE <<>>

\* C4: State.tags() is strictly ascending (so without duplicates) and holds
\* exactly the whitespace-separated tokens of the tags text of every decoded
\* document.
C4_TagsSortedUnion ==
    /\ \A i \in 1..(Len(tags) - 1) : StrLess(tags[i], tags[i + 1])
    /\ SeqToSet(tags) = UNION { TokensOf(TagsNodeText(Decoded[k])) : k \in 1..Len(Decoded) }

\* Documents with overlapping and differently spaced tags, and one without
\* a tags node, give the sorted union.
C4_Witness ==
    /\ RelPaths(scanned) = <<"B", "A", "C">>
    /\ xp["tags"]
    /\ tags = << <<"a">>, <<"a", "b">>, <<"b">> >>
    /\ scan_pc = "views"
    /\ sorted_tags = tags

\* C5: in the scan pass the group of every tag t of State.tags() holds
\* exactly the retained records whose tag set contains t, in the order of
\* State.get().
C5_TagGroups ==
    scan_pc = "views" =>
        \A t \in SeqToSet(sorted_tags) :
            sorted_state_tags[t] = SelectSeq(sorted_states, LAMBDA r : t \in r.tags)

\* s is the beginning of t.
IsPrefix(s, t) == Len(s) <= Len(t) /\ SubSeq(t, 1, Len(s)) = s

\* C14: the collection is append-only during a scan pass: a decode call
\* keeps the retained records and their order and adds at most one record at
\* the end, the set of seen tags only grows, and get() and tags() change
\* neither (a second call after them returns the same results).
C14_AppendOnly ==
    /\ [](scan_pc = "views" => sorted_states = get /\ sorted_tags = tags)
    /\ [][ /\ IsPrefix(self_states, self_states')
           /\ Len(self_states') <= Len(self_states) + 1
           /\ self_tags \subseteq self_tags'
           /\ scanned' = scanned =>
                  self_states' = self_states /\ self_tags' = self_tags ]_vars

\* After decodes that retained and that discarded, get() returned an order
\* that is not the order of the collection.
C14_Witness ==
    /\ scan_pc = "views"
    /\ Len(self_states) >= 2
    /\ Len(scanned) > Len(self_states)
    /\ sorted_states # self_states
    /\ sorted_tags # <<>>

\* A tag that no retained record carries.
IsOrphanTag(t) == \A i \in 1..Len(self_states) : t \notin self_states[i].tags

\* C15: the tags of a discarded document are in tags() all the same, and the
\* tag-partitioned view has a group for such a tag, which holds no record
\* when no retained record carries the tag.
C15_DiscardedTagsGroupEmpty ==
    \A k \in 1..Len(Decoded) :
        ~Complete(Decoded[k]) =>
            \A t \in TokensOf(TagsNodeText(Decoded[k])) :
                /\ t \in SeqToSet(tags)
                /\ scan_pc = "views" =>
                       /\ t \in DOMAIN sorted_state_tags
                       /\ IsOrphanTag(t) => sorted_state_tags[t] = <<>>

(***************************************************************************)
(* Claims about the output stage                                           *)
(***************************************************************************)
\* The name has the reserved prefix "file:".
IsFileSection(s) == Len(s) >= 5 /\ SubSeq(s, 1, 5) = <<"f", "i", "l", "e", ":">>

\* What follows the prefix.
FileName(s) == SubSeq(s, 6, Len(s))

HasSlash(name) == \E i \in 1..Len(name) : name[i] = "/"

\* The file of that name beside the primary output.
Sibling(name) ==
    Append(SubSeq(Resolve(build_output), 1, Len(Resolve(build_output)) - 1), name)

\* C6: a section "file:<remainder>" whose remainder contains a path separator
\* is rejected with an OutputError: it is skipped and a diagnostic about it
\* is reported, while the call goes on.
C6_TraversalSectionReported ==
    build_raised = "none" =>
        \A i \in 1..Len(build_sections) :
            IsFileSection(build_sections[i]) /\ HasSlash(FileName(build_sections[i])) =>
                \E k \in 1..Len(build_log) :
                    \/ build_log[k].action \notin {"BUILD", "NOCHG"}
                    \/ build_log[k].output = build_sections[i]
                    \/ build_log[k].output = FileName(build_sections[i])
                    \/ build_log[k].output
                           = join(dirname(build_output), FileName(build_sections[i]))

\* C7: every file build_from_data writes is the primary output or lies
\* directly in the primary output's directory under the remainder of a
\* section name that starts with "file:" and holds no path separator; no
\* other section makes it write a file.
C7_WritesStayBesidePrimary ==
    \A w \in build_written :
        \/ w = Resolve(build_output)
        \/ \E i \in 1..Len(build_sections) :
               /\ IsFileSection(build_sections[i])
               /\ ~HasSlash(FileName(build_sections[i]))
               /\ w = Sibling(FileName(build_sections[i]))

\* A render with a traversal section and a plain one wrote the primary
\* output and the one sibling.
C7_Witness ==
    /\ build_sections = << FilePrefix \o <<".", ".", "/", "a">>, FilePrefix \o <<"a">> >>
    /\ build_written = { Resolve(build_output), Sibling(<<"a">>) }
    /\ Cardinality(build_written) = 2
    /\ build_raised = "none"

\* The remainder is a bare file name.
IsBareFileSection(s) ==
    /\ IsFileSection(s)
    /\ FileName(s) # <<>>
    /\ ~HasSlash(FileName(s))
    /\ FileName(s) \notin { <<".">>, <<".", ".">> }

\* C8: when build_from_data built the primary output and the render gave a
\* section "file:<name>" with a bare file name, then after the call the
\* sibling <name> of the primary output holds that section's content (or was
\* already up to date), whatever lies under that name elsewhere.
C8_SiblingWritten ==
    ( /\ build_raised = "none"
      /\ \E k \in 1..Len(build_log) :
             build_log[k].action = "BUILD" /\ build_log[k].output = build_output )
    => \A i \in 1..Len(build_sections) :
           IsBareFileSection(build_sections[i]) =>
               /\ Sibling(FileName(build_sections[i])) \in DOMAIN fs_files
               /\ \/ fs_files[Sibling(FileName(build_sections[i]))].content
                         = RenderedSection(build_sections[i])
                  \/ fs_files[Sibling(FileName(build_sections[i]))].mtime >= input_mtime

(***************************************************************************)
(* Claims about the node wrapper                                           *)
(***************************************************************************)
\* The tag begins with a brace-delimited prefix.
HasBracePrefix(tag) == tag[1] = "{" /\ \E i \in 2..Len(tag) : tag[i] = "}"

\* C9: a tag with a brace-delimited prefix splits into the text between the
\* braces and the remainder after "}"; every other tag, one that starts with
\* "{" and has no "}" included, has the empty namespace and the whole tag as
\* its local name.
C9_TagSplit ==
    wrapped =>
        IF HasBracePrefix(node_tag)
        THEN <<"{">> \o wrapper_ns \o <<"}">> \o wrapper_tagname = node_tag
        ELSE wrapper_ns = <<>> /\ wrapper_tagname = node_tag

(***************************************************************************)
(* Claims about the parameters                                             *)
(***************************************************************************)
\* s without the whitespace at its ends.
Trimmed(s) ==
    LET inside == {i \in 1..Len(s) : s[i] \notin Whitespace}
    IN  IF inside = {} THEN <<>>
        ELSE SubSeq(s, CHOOSE i \in inside : \A j \in inside : i <= j,
                       CHOOSE i \in inside : \A j \in inside : i >= j)

\* The positions of "=" in p.
EqualSigns(p) == {i \in 1..Len(p) : p[i] = "="}

FirstEqualSign(p) == CHOOSE i \in EqualSigns(p) : \A j \in EqualSigns(p) : i <= j

\* The name a parameter gives: up to the first "=", trimmed.
GivenName(p) ==
    IF EqualSigns(p) = {} THEN Trimmed(p) ELSE Trimmed(SubSeq(p, 1, FirstEqualSign(p) - 1))

\* The value it gives: what follows the first "=", trimmed, or True.
GivenValue(p) ==
    IF EqualSigns(p) = {} THEN TrueValue
    ELSE StrValue(Trimmed(SubSeq(p, FirstEqualSign(p) + 1, Len(p))))

\* The parameter at k is the last one that gives its name.
IsLastOfName(k) ==
    \A m \in (k + 1)..Len(params) : GivenName(params[m]) # GivenName(params[k])

Terminated(prefix) ==
    IF prefix = <<>> \/ prefix[Len(prefix)] = "/" THEN prefix
    ELSE prefix \o <<"/">>

\* C11: resolve returns prefix + alias + ":" + localName for an aliased
\* namespace, prefix + "{" + namespace + "}" + localName for a namespace
\* without an alias and prefix + localName for no namespace, the prefix
\* ended by the separator when it is not empty.
C11_TokenResolution ==
    tx_pc = "resolved" =>
        LET arg == tx_input
            pre == Terminated(arg.prefix)
        IN  /\ arg.namespace # <<>> /\ arg.namespace \in DOMAIN arg.aliases =>
                   tx_token = pre \o arg.aliases[arg.namespace] \o <<":">>
                                  \o arg.localName
            /\ arg.namespace # <<>> /\ arg.namespace \notin DOMAIN arg.aliases =>
                   tx_token = pre \o <<"{">> \o arg.namespace \o <<"}">>
                                  \o arg.localName
            /\ arg.namespace = <<>> => tx_token = pre \o arg.localName

\* {urn:x}foo with prefix p/ and urn:x aliased to a resolved to p/a:foo.
C11_Witness ==
    /\ tx_pc = "resolved"
    /\ tx_input.namespace = urn_x
    /\ tx_input.localName = foo
    /\ tx_input.prefix = <<"p", "/">>
    /\ tx_input.aliases = (urn_x :> <<"a">>)
    /\ tx_token = <<"p", "/", "a", ":", "f", "o", "o">>

\* The number of events of this kind by the call at this path.
EventCount(op, path) ==
    Cardinality({ j \in 1..Len(tx_events) :
                    tx_events[j] = [op |-> op, path |-> path] })

\* C12: every processNode call that pushes a frame pops exactly one, also
\* when a render in it fails, and every call, failed or not, ends with the
\* stack at the depth and with the top it began with.
C12_StackBalance ==
    tx_pc = "done" =>
        /\ \A k \in 1..Len(tx_calls) :
               /\ Len(tx_calls[k].after) = Len(tx_calls[k].before)
               /\ Top(tx_calls[k].after) = Top(tx_calls[k].before)
               /\ EventCount("pop", tx_calls[k].path)
                      = EventCount("push", tx_calls[k].path)
               /\ EventCount("push", tx_calls[k].path) <= 1
        /\ tx_stack = <<"suppress">>

\* A nested call pushed a frame and a render in it failed.
C12_Witness ==
    /\ tx_pc = "done"
    /\ tx_raised = "RenderError"
    /\ \E k \in 1..Len(tx_calls) :
           /\ tx_calls[k].raised # "none"
           /\ Len(tx_calls[k].before) >= 2
           /\ EventCount("push", tx_calls[k].path) = 1

\* The node at this path below the root.
RECURSIVE NodeAt(_, _)
NodeAt(node, path) ==
    IF path = <<>> THEN node ELSE NodeAt(node.children[Head(path)], Tail(path))

\* C13: a processNode call for a node without a RuleEntry appends nothing
\* to the Output Accumulator and no call is made for any node below it.
C13_UnmatchedSkipped ==
    tx_pc = "done" =>
        \A k \in 1..Len(tx_calls) :
            ~tx_calls[k].matched =>
                /\ tx_calls[k].outAfter = tx_calls[k].outBefore
                /\ \A j \in 1..Len(tx_calls) :
                       j # k => ~IsPrefix(tx_calls[k].path, tx_calls[j].path)

\* An unmatched node was met while text is emitted, and a child of it has a
\* token that the registry of the call has a rule for.
C13_Witness ==
    /\ tx_pc = "done"
    /\ \E k \in 1..Len(tx_calls) :
           /\ ~tx_calls[k].matched
           /\ Top(tx_calls[k].before) = "emit"
           /\ \E child \in SeqToSet(NodeAt(tx_input.root, tx_calls[k].path).children) :
                  resolve(child, tx_calls[k].prefix,
                          Registries[tx_calls[k].registry])
                      \in DOMAIN Registries[tx_calls[k].registry].rules


====
